---- MODULE Spec2Model ----
(***************************************************************************)
(* Model of the edit-command core of edit_trick:                           *)
(*   apply_sed_edits            (src/src/edit_trick/apply.py)   "Mode A"   *)
(*   generate_edits' parser     (src/src/edit_trick/llm.py)                *)
(*   apply_edits                (src/src/edit_trick/llm.py)     "Mode B"   *)
(* A Python str is a sequence of one-character strings.  "\\" is the       *)
(* backslash character and "\n" the newline character.  "NUL", "BEL" and   *)
(* "BS" stand for chr(0), chr(7) and chr(8), which Python's re module      *)
(* produces from the replacement escapes \0, \a and \b.                    *)
(***************************************************************************)
EXTENDS Integers, Sequences, FiniteSets, TLC

VARIABLES text, pc, edit_commands, i, result, parts, pattern, replacement,
          lines, edits, raw_commands, sorted_edits, k, modified_text

vars == <<text, pc, edit_commands, i, result, parts, pattern, replacement,
          lines, edits, raw_commands, sorted_edits, k, modified_text>>

(***************************************************************************)
(* Bounds of the model.                                                    *)
(***************************************************************************)
MaxDoc == 2
MaxCmds == 2

(***************************************************************************)
(* Python str primitives.                                                  *)
(***************************************************************************)
BSL == "\\"
NL == "\n"

Min(a, b) == IF a < b THEN a ELSE b

\* s[from:] with a 0-based offset, as Python slices
Slice(s, from) == SubSeq(s, from + 1, Len(s))

\* s[:to]
Prefix(s, to) == SubSeq(s, 1, Min(to, Len(s)))

\* str.startswith
StartsWith(s, p) == Len(s) >= Len(p) /\ SubSeq(s, 1, Len(p)) = p

\* does needle occur in hay at 0-based offset p
OccursAt(hay, needle, p) ==
    /\ p >= 0
    /\ p + Len(needle) <= Len(hay)
    /\ SubSeq(hay, p + 1, p + Len(needle)) = needle

\* str.find: the lowest 0-based offset of needle in hay, or -1
Find(hay, needle) ==
    LET hits == {p \in 0..Len(hay) : OccursAt(hay, needle, p)}
    IN IF hits = {} THEN -1 ELSE CHOOSE p \in hits : \A q \in hits : p <= q

\* str.replace(old, new) for a non-empty old: every non-overlapping
\* occurrence, scanning left to right
RECURSIVE Replace(_, _, _)
Replace(s, old, new) ==
    IF s = <<>> THEN <<>>
    ELSE IF StartsWith(s, old) THEN new \o Replace(Slice(s, Len(old)), old, new)
    ELSE <<Head(s)>> \o Replace(Tail(s), old, new)

\* s.split(sep)[0]: the part of s before the first sep, all of s without one
SplitFirst(s, sep) ==
    IF Find(s, sep) = -1 THEN s ELSE Prefix(s, Find(s, sep))

(***************************************************************************)
(* The tokenizer loop shared by apply_sed_edits and generate_edits.        *)
(***************************************************************************)
TokInit == [parts |-> <<>>, current |-> <<>>, escape |-> FALSE]

\* the escape branch keeping the backslash in the field
TokStepKeepBackslash(st, char) ==
    IF st.escape
    THEN [st EXCEPT !.current = @ \o <<BSL, char>>, !.escape = FALSE]
    ELSE IF char = BSL
    THEN [st EXCEPT !.escape = TRUE]
    ELSE IF char = "/"
    THEN [st EXCEPT !.parts = Append(@, st.current), !.current = <<>>]
    ELSE [st EXCEPT !.current = Append(@, char)]

\* one iteration of `for char in cmd[2:]`
TokStep(st, char) ==
    IF st.escape
    THEN [st EXCEPT !.current = Append(@, char), !.escape = FALSE]
    ELSE IF char = BSL
    THEN [st EXCEPT !.escape = TRUE]
    ELSE IF char = "/"
    THEN [st EXCEPT !.parts = Append(@, st.current), !.current = <<>>]
    ELSE [st EXCEPT !.current = Append(@, char)]

RECURSIVE TokScan(_, _)
TokScan(st, body) ==
    IF body = <<>> THEN st ELSE TokScan(TokStep(st, Head(body)), Tail(body))

\* the scan closing the field that is still open when the command ends
TokenizeFlush(cmd) ==
    LET st == TokScan(TokInit, Slice(cmd, 2))
    IN IF st.current # <<>> THEN Append(st.parts, st.current) ELSE st.parts

\* the value of `parts` after the scan of cmd[2:]
Tokenize(cmd) == TokScan(TokInit, Slice(cmd, 2)).parts

(***************************************************************************)
(* re.sub(re.escape(pattern), replacement, result, count=1).               *)
(* The replacement is a template: re compiles it before any search, and    *)
(* raises re.error on a bad escape whether or not the pattern occurs.      *)
(***************************************************************************)
AsciiLetters ==
    {"a","b","c","d","e","f","g","h","i","j","k","l","m","n","o","p","q","r",
     "s","t","u","v","w","x","y","z","A","B","C","D","E","F","G","H","I","J",
     "K","L","M","N","O","P","Q","R","S","T","U","V","W","X","Y","Z"}

\* \1 .. \9 is a group reference; the literal pattern has no group
GroupDigits == {"1","2","3","4","5","6","7","8","9"}

OctDigits == {"0","1","2","3","4","5","6","7"}

\* re's ESCAPES table, for the letters the model's commands use
ReEscape(c) ==
    CASE c = "n" -> NL
      [] c = "a" -> "BEL"
      [] c = "b" -> "BS"
      [] c = BSL -> BSL

ReEscapeChars == {"n", "a", "b", BSL}

\* what the model's commands never put after a backslash: the other letters
\* of ESCAPES and the named group reference \g<..>
ReEscapeUnmodelled == {"f", "r", "t", "v", "g"}

\* how many octal digits follow \0 (at most two are consumed)
OctalRun(rest) ==
    IF Len(rest) >= 1 /\ rest[1] \in OctDigits
    THEN (IF Len(rest) >= 2 /\ rest[2] \in OctDigits THEN 2 ELSE 1)
    ELSE 0

\* the template expansion of re for a pattern without groups:
\* [ok |-> TRUE, out |-> text] or [ok |-> FALSE] when re.error is raised
RECURSIVE ExpandTemplate(_)
ExpandTemplate(t) ==
    IF t = <<>> THEN [ok |-> TRUE, out |-> <<>>]
    ELSE IF Head(t) # BSL
    THEN LET r == ExpandTemplate(Tail(t))
         IN IF r.ok THEN [ok |-> TRUE, out |-> <<Head(t)>> \o r.out] ELSE r
    ELSE IF Len(t) = 1 THEN [ok |-> FALSE]              \* bad escape (end of pattern)
    ELSE LET c == t[2]
             rest == Slice(t, 2)
         IN IF c = "0"
            THEN \* \0, \00, \000: octal escape; the commands of the model
                 \* use no other digit, so the value is chr(0)
                 LET n == OctalRun(rest)
                     r == ExpandTemplate(Slice(rest, n))
                 IN IF r.ok THEN [ok |-> TRUE, out |-> <<"NUL">> \o r.out] ELSE r
            ELSE IF c \in GroupDigits
            THEN [ok |-> FALSE]                          \* invalid group reference
            ELSE IF c \in ReEscapeChars
            THEN LET r == ExpandTemplate(rest)
                 IN IF r.ok THEN [ok |-> TRUE, out |-> <<ReEscape(c)>> \o r.out] ELSE r
            ELSE IF c \in AsciiLetters
            THEN [ok |-> FALSE]                          \* bad escape \c
            ELSE LET r == ExpandTemplate(rest)           \* \c stays as it is
                 IN IF r.ok THEN [ok |-> TRUE, out |-> <<BSL, c>> \o r.out] ELSE r

\* the model's inputs keep clear of what ExpandTemplate does not model
TemplateModelled(t) ==
    /\ \A j \in 1..(Len(t) - 1) : t[j] = BSL => t[j + 1] \notin ReEscapeUnmodelled
    /\ \A j \in 1..Len(t) : t[j] \notin GroupDigits

\* re.sub with count=1 on a literal pattern: [ok, out]
ReSubFirst(pat, repl, s) ==
    LET tpl == ExpandTemplate(repl)
        p == Find(s, pat)
    IN IF ~tpl.ok THEN [ok |-> FALSE, out |-> s]
       ELSE IF p = -1 THEN [ok |-> TRUE, out |-> s]
       ELSE [ok |-> TRUE, out |-> Prefix(s, p) \o tpl.out \o Slice(s, p + Len(pat))]

(***************************************************************************)
(* Inputs: documents, raw command strings, edit records.                   *)
(***************************************************************************)
DocChars == {"x", "y"}

SeqsUpTo(S, n) == UNION {[1..m -> S] : m \in 0..n}

CatSat == <<"c","a","t"," ","s","a","t">>
ASlashB == <<"a","/","b">>

Docs == SeqsUpTo(DocChars, MaxDoc) \cup {CatSat, ASlashB}

S == <<"s", "/">>
ECHO == <<"$", "0">>
RawNL == <<BSL, "n">>

\* s/a/t/ and s/a/t (the closing delimiter missing)
Cmd(a, t) == S \o a \o <<"/">> \o t \o <<"/">>
CmdOpen(a, t) == S \o a \o <<"/">> \o t

OnlyOneSlash ==
    S \o <<"o","n","l","y","-","o","n","e","-","s","l","a","s","h">>

\* s/cat/$0dog/
CmdCatDog == Cmd(<<"c","a","t">>, ECHO \o <<"d","o","g">>)
\* s/a\/b/c/
CmdASlashB == Cmd(<<"a", BSL, "/", "b">>, <<"c">>)
\* s/x/y\n\nz/
CmdNewlines == Cmd(<<"x">>, <<"y">> \o RawNL \o RawNL \o <<"z">>)

SedCmds ==
    { Cmd(<<"x">>, <<"y">>),                       \* s/x/y/
      Cmd(<<"y">>, ECHO \o <<"x">>),               \* s/y/$0x/
      CmdCatDog,
      CmdNewlines,
      Cmd(<<"x">>, <<"y", BSL>> \o RawNL),         \* s/x/y\\n/
      Cmd(<<"x">>, <<BSL, BSL, "x">>),             \* s/x/\\x/
      Cmd(<<"x">>, <<BSL, BSL, BSL, BSL>>),        \* s/x/\\\\/
      Cmd(<<"y">>, <<BSL, BSL, "0">>),             \* s/y/\\0/
      CmdASlashB,
      OnlyOneSlash,
      CmdOpen(<<"x">>, <<"y">>),                   \* s/x/y
      CmdOpen(<<"x">>, <<"y", BSL>>),              \* s/x/y\
      Cmd(<<>>, <<"y">>),                          \* s//y/
      <<"x", "/", "y", "/">>,                      \* x/y/
      Cmd(<<"x">>, <<>>),                          \* s/x//
      Cmd(<<"z">>, <<"y">>),                       \* s/z/y/
      Cmd(<<"z">>, <<BSL, BSL, "x">>),             \* s/z/\\x/
      Cmd(<<"x", BSL, BSL, "y">>, ECHO) }          \* s/x\\y/$0/

\* the prompted form s/ANCHOR/HEADING\n\n$0/
Prompted(a, h) == Cmd(a, h \o RawNL \o RawNL \o ECHO)

Lines ==
    { Prompted(<<"x">>, <<"#">>),
      Prompted(<<"x">>, <<"=">>),
      Prompted(<<"y">>, <<"=">>),
      Prompted(<<"x", "y">>, <<"=">>),
      Prompted(<<"z">>, <<"#">>),
      Prompted(<<>>, <<"#">>),                                 \* s//#\n\n$0/
      Cmd(<<"y">>, <<"#", BSL>> \o RawNL \o <<BSL>> \o RawNL \o ECHO),  \* s/y/#\\n\\n$0/
      CmdASlashB,
      OnlyOneSlash,
      CmdOpen(<<"x">>, <<"#">>),                               \* s/x/#
      CmdOpen(<<"y">>, <<"#", BSL>>),                          \* s/y/#\
      <<"#", " ", "x">> }                                      \* commentary

Anchors == {<<"x">>, <<"y">>, <<"x", "y">>, <<"z">>}
Headings == {<<"#">>, <<"=">>}

Records ==
    {[section_start |-> a, heading |-> h, raw_command |-> <<>>] :
        a \in Anchors, h \in Headings}

(***************************************************************************)
(* apply_edits: resolution and the stable sort by position.                *)
(***************************************************************************)
\* a resolution by the last occurrence (str.rfind) instead of the first
FindLast(hay, needle) ==
    LET hits == {p \in 0..Len(hay) : OccursAt(hay, needle, p)}
    IN IF hits = {} THEN -1 ELSE CHOOSE p \in hits : \A q \in hits : p >= q

RECURSIVE ResolveLast(_, _)
ResolveLast(t, es) ==
    IF es = <<>> THEN <<>>
    ELSE LET e == Head(es)
             p == FindLast(t, e.section_start)
         IN IF p # -1
            THEN <<[edit |-> e, position |-> p]>> \o ResolveLast(t, Tail(es))
            ELSE ResolveLast(t, Tail(es))

\* [(edit, text.find(...)) for edit in edits if text.find(...) != -1]
RECURSIVE Resolve(_, _)
Resolve(t, es) ==
    IF es = <<>> THEN <<>>
    ELSE LET e == Head(es)
             p == Find(t, e.section_start)
         IN IF p # -1
            THEN <<[edit |-> e, position |-> p]>> \o Resolve(t, Tail(es))
            ELSE Resolve(t, Tail(es))

\* an insertion in front of the elements of equal position: an unstable sort
RECURSIVE InsertByPosUnstable(_, _)
InsertByPosUnstable(sorted, r) ==
    IF sorted = <<>> THEN <<r>>
    ELSE IF Head(sorted).position < r.position
    THEN <<Head(sorted)>> \o InsertByPosUnstable(Tail(sorted), r)
    ELSE <<r>> \o sorted

\* insert r behind every element whose position is not greater (stability)
RECURSIVE InsertByPos(_, _)
InsertByPos(sorted, r) ==
    IF sorted = <<>> THEN <<r>>
    ELSE IF Head(sorted).position <= r.position
    THEN <<Head(sorted)>> \o InsertByPos(Tail(sorted), r)
    ELSE <<r>> \o sorted

\* the sort left out: the edits stay in input order
SortByPosNone(rs) == rs

\* a sort by descending position, which makes the loop run in ascending order
RECURSIVE InsertByPosDesc(_, _)
InsertByPosDesc(sorted, r) ==
    IF sorted = <<>> THEN <<r>>
    ELSE IF Head(sorted).position >= r.position
    THEN <<Head(sorted)>> \o InsertByPosDesc(Tail(sorted), r)
    ELSE <<r>> \o sorted

RECURSIVE SortByPosDesc(_)
SortByPosDesc(rs) ==
    IF rs = <<>> THEN <<>>
    ELSE InsertByPosDesc(SortByPosDesc(SubSeq(rs, 1, Len(rs) - 1)), rs[Len(rs)])

\* sorted(..., key=lambda x: x[1]); Python's sort is stable
RECURSIVE SortByPos(_)
SortByPos(rs) ==
    IF rs = <<>> THEN <<>>
    ELSE InsertByPos(SortByPos(SubSeq(rs, 1, Len(rs) - 1)), rs[Len(rs)])

\* modified_text[:position] + heading + "\n\n" + modified_text[position:]
Splice(buf, r) ==
    Prefix(buf, r.position) \o (r.edit.heading \o <<NL, NL>>) \o Slice(buf, r.position)

\* the loop `for edit, position in reversed(sorted_edits)` from index n down
RECURSIVE SpliceAll(_, _, _)
SpliceAll(buf, rs, n) ==
    IF n = 0 THEN buf ELSE SpliceAll(Splice(buf, rs[n]), rs, n - 1)

\* apply_edits as a function of its arguments
ApplyEdits(t, es) ==
    SpliceAll(t, SortByPos(Resolve(t, es)), Len(SortByPos(Resolve(t, es))))

(***************************************************************************)
(* The state machine.                                                      *)
(***************************************************************************)
Init ==
    /\ text \in Docs
    /\ pc = "idle"
    /\ edit_commands = <<>>
    /\ i = 0
    /\ result = <<>>
    /\ parts = <<>>
    /\ pattern = <<>>
    /\ replacement = <<>>
    /\ lines = <<>>
    /\ edits = <<>>
    /\ raw_commands = <<>>
    /\ sorted_edits = <<>>
    /\ k = 0
    /\ modified_text = <<>>

\* cli.apply_saved_edits -> apply_sed_edits(text, edit_commands)
CallApplySedEdits ==
    /\ pc = "idle"
    /\ \E cs \in SeqsUpTo(SedCmds, MaxCmds) : edit_commands' = cs
    /\ result' = text
    /\ i' = 1
    /\ pc' = "sed_loop"
    /\ UNCHANGED <<text, parts, pattern, replacement, lines, edits,
                   raw_commands, sorted_edits, k, modified_text>>

\* parts[0].replace('\\/', '/')
PatternOf(ps) == Replace(ps[1], <<BSL, "/">>, <<"/">>)

\* parts[1].replace('\\n', '\n').replace('$0', pattern)
ReplacementOf(ps) == Replace(Replace(ps[2], RawNL, <<NL>>), ECHO, PatternOf(ps))

\* the effect of one iteration on the buffer: [ok, out]
SedIter(cur, cmd) ==
    IF ~StartsWith(cmd, S) \/ Len(Tokenize(cmd)) < 2
    THEN [ok |-> TRUE, out |-> cur]
    ELSE ReSubFirst(PatternOf(Tokenize(cmd)), ReplacementOf(Tokenize(cmd)), cur)

\* apply_sed_edits as a function of its arguments: [ok |-> FALSE] when the
\* call raises, else [ok |-> TRUE, out |-> the returned text]
RECURSIVE ApplySedEdits(_, _)
ApplySedEdits(t, cs) ==
    IF cs = <<>> THEN [ok |-> TRUE, out |-> t]
    ELSE LET r == SedIter(t, Head(cs))
         IN IF r.ok THEN ApplySedEdits(r.out, Tail(cs)) ELSE [ok |-> FALSE, out |-> r.out]

\* one iteration of `for cmd in edit_commands`
SedStep ==
    /\ pc = "sed_loop"
    /\ i <= Len(edit_commands)
    /\ LET cmd == edit_commands[i]
           ps == Tokenize(cmd)
       IN IF ~StartsWith(cmd, S)
          THEN /\ i' = i + 1
               /\ UNCHANGED <<pc, result, parts, pattern, replacement>>
          ELSE IF Len(ps) < 2
          THEN /\ i' = i + 1
               /\ parts' = ps
               /\ UNCHANGED <<pc, result, pattern, replacement>>
          ELSE LET r == ReSubFirst(PatternOf(ps), ReplacementOf(ps), result)
               IN /\ parts' = ps
                  /\ pattern' = PatternOf(ps)
                  /\ replacement' = ReplacementOf(ps)
                  /\ IF r.ok
                     THEN result' = r.out /\ i' = i + 1 /\ pc' = pc
                     ELSE pc' = "sed_raised" /\ UNCHANGED <<result, i>>
    /\ UNCHANGED <<text, edit_commands, lines, edits, raw_commands,
                   sorted_edits, k, modified_text>>

\* return result
SedReturn ==
    /\ pc = "sed_loop"
    /\ i > Len(edit_commands)
    /\ pc' = "sed_returned"
    /\ UNCHANGED <<text, edit_commands, i, result, parts, pattern, replacement,
                   lines, edits, raw_commands, sorted_edits, k, modified_text>>

\* cli.process_with_edit_trick -> generate_edits: the lines of the reply
CallGenerateEdits ==
    /\ pc = "idle"
    /\ \E ls \in SeqsUpTo(Lines, MaxCmds) : lines' = ls
    /\ edits' = <<>>
    /\ raw_commands' = <<>>
    /\ i' = 1
    /\ pc' = "gen_loop"
    /\ UNCHANGED <<text, edit_commands, result, parts, pattern, replacement,
                   sorted_edits, k, modified_text>>

\* parts[1].split('\\n\\n')[0]
HeadingOf(ps) == SplitFirst(ps[2], RawNL \o RawNL)

\* the record appended for a line with at least two closed fields
EditOf(line, ps) ==
    [section_start |-> PatternOf(ps), heading |-> HeadingOf(ps), raw_command |-> line]

\* one iteration of `for line in output_text.strip().split('\n')`
GenStep ==
    /\ pc = "gen_loop"
    /\ i <= Len(lines)
    /\ LET line == lines[i]
           ps == Tokenize(line)
       IN IF ~(line # <<>> /\ StartsWith(line, S))
          THEN UNCHANGED <<raw_commands, parts, edits>>
          ELSE /\ raw_commands' = Append(raw_commands, line)
               /\ parts' = ps
               /\ IF Len(ps) >= 2
                  THEN edits' = Append(edits, EditOf(line, ps))
                  ELSE UNCHANGED edits
    /\ i' = i + 1
    /\ UNCHANGED <<text, pc, edit_commands, result, pattern, replacement, lines,
                   sorted_edits, k, modified_text>>

\* return edits, metadata
GenReturn ==
    /\ pc = "gen_loop"
    /\ i > Len(lines)
    /\ pc' = "have_edits"
    /\ UNCHANGED <<text, edit_commands, i, result, parts, pattern, replacement,
                   lines, edits, raw_commands, sorted_edits, k, modified_text>>

\* cli.apply_saved_edits with a .json file: edits = json.load(f)
LoadJsonEdits ==
    /\ pc = "idle"
    /\ \E es \in SeqsUpTo(Records, MaxCmds) : edits' = es
    /\ pc' = "have_edits"
    /\ UNCHANGED <<text, edit_commands, i, result, parts, pattern, replacement,
                   lines, raw_commands, sorted_edits, k, modified_text>>

\* apply_edits(text, edits) up to the loop: the copy and the sort
CallApplyEdits ==
    /\ pc = "have_edits"
    /\ modified_text' = text
    /\ sorted_edits' = SortByPos(Resolve(text, edits))
    /\ k' = Len(SortByPos(Resolve(text, edits)))
    /\ pc' = "apply_loop"
    /\ UNCHANGED <<text, edit_commands, i, result, parts, pattern, replacement,
                   lines, edits, raw_commands>>

\* one iteration of `for edit, position in reversed(sorted_edits)`
ApplyStep ==
    /\ pc = "apply_loop"
    /\ k >= 1
    /\ modified_text' = Splice(modified_text, sorted_edits[k])
    /\ k' = k - 1
    /\ UNCHANGED <<text, pc, edit_commands, i, result, parts, pattern,
                   replacement, lines, edits, raw_commands, sorted_edits>>

\* return modified_text
ApplyReturn ==
    /\ pc = "apply_loop"
    /\ k = 0
    /\ pc' = "apply_returned"
    /\ UNCHANGED <<text, edit_commands, i, result, parts, pattern, replacement,
                   lines, edits, raw_commands, sorted_edits, k, modified_text>>

Next ==
    \/ CallApplySedEdits
    \/ SedStep
    \/ SedReturn
    \/ CallGenerateEdits
    \/ GenStep
    \/ GenReturn
    \/ LoadJsonEdits
    \/ CallApplyEdits
    \/ ApplyStep
    \/ ApplyReturn

Spec == Init /\ [][Next]_vars

\* every template the model puts through re lies in what ExpandTemplate models
InputsModelled ==
    \A c \in SedCmds :
        Len(Tokenize(c)) >= 2 => TemplateModelled(ReplacementOf(Tokenize(c)))

(***************************************************************************)
(* Mode B: round-trip literal integrity and order invariance.              *)
(***************************************************************************)
\* the first occurrence in the original text of the anchor of edits[n]
AnchorPos(n) == Find(text, edits[n].section_start)

AnchorLen(n) == Len(edits[n].section_start)

AnchorsPresent == \A n \in 1..Len(edits) : AnchorPos(n) # -1

AnchorsDistinct ==
    \A m, n \in 1..Len(edits) :
        m # n => edits[m].section_start # edits[n].section_start

\* two first occurrences overlap when they share a character or start at
\* the same offset (an empty anchor occupies the offset it resolves to)
Overlap(m, n) ==
    \/ AnchorPos(m) = AnchorPos(n)
    \/ /\ AnchorPos(m) < AnchorPos(n) + AnchorLen(n)
       /\ AnchorPos(n) < AnchorPos(m) + AnchorLen(m)

AnchorsNonOverlapping ==
    \A m, n \in 1..Len(edits) : m # n => ~Overlap(m, n)

C1_Pre == AnchorsPresent /\ AnchorsDistinct /\ AnchorsNonOverlapping

\* what is to stand immediately before offset p of the original text
InsertedAt(p) ==
    IF \E n \in 1..Len(edits) : AnchorPos(n) = p
    THEN edits[CHOOSE n \in 1..Len(edits) : AnchorPos(n) = p].heading \o <<NL, NL>>
    ELSE <<>>

\* the original text from offset p on, each anchor preceded by its heading
RECURSIVE ExpectedFrom(_)
ExpectedFrom(p) ==
    IF p >= Len(text) THEN (IF p = 0 THEN InsertedAt(0) ELSE <<>>)
    ELSE InsertedAt(p) \o <<text[p + 1]>> \o ExpectedFrom(p + 1)

\* the number of characters inserted at offsets <= p
RECURSIVE InsertedUpTo(_)
InsertedUpTo(p) ==
    IF p < 0 THEN 0 ELSE Len(InsertedAt(p)) + InsertedUpTo(p - 1)

\* C1: when the anchors of the batch are pairwise distinct, non-overlapping
\* and all present in the document, apply_edits returns the document with
\* heading + "\n\n" spliced in immediately before the first occurrence of
\* each anchor; every character of the document is kept, in order, shifted
\* only by the headings inserted at or before it.
C1_RoundTrip ==
    (pc = "apply_returned" /\ C1_Pre) =>
        /\ modified_text = ExpectedFrom(0)
        /\ Len(modified_text) = Len(text) + InsertedUpTo(Len(text))
        /\ \A p \in 0..(Len(text) - 1) :
               modified_text[p + 1 + InsertedUpTo(p)] = text[p + 1]
        /\ \A n \in 1..Len(edits) :
               OccursAt(modified_text,
                        edits[n].heading \o <<NL, NL>> \o edits[n].section_start,
                        AnchorPos(n) + InsertedUpTo(AnchorPos(n) - 1))

\* two edits with distinct present anchors were applied, the one with the
\* higher offset given first
C1_Witness ==
    /\ pc = "apply_returned"
    /\ C1_Pre
    /\ Len(edits) = 2
    /\ AnchorPos(1) > AnchorPos(2)
    /\ modified_text # text

Perms(n) == {f \in [1..n -> 1..n] : \A a, b \in 1..n : a # b => f[a] # f[b]}

Permuted(es, f) == [j \in 1..Len(es) |-> es[f[j]]]

\* C2 as claimed: the output of apply_edits is the same for every
\* permutation of the edit list, whatever the batch.
C2_Original ==
    pc = "apply_returned" =>
        \A f \in Perms(Len(edits)) :
            ApplyEdits(text, Permuted(edits, f)) = modified_text

\* no two edits with different headings resolve to the same offset
TiesAgree ==
    \A m, n \in 1..Len(edits) :
        (AnchorPos(m) # -1 /\ AnchorPos(m) = AnchorPos(n))
            => edits[m].heading = edits[n].heading

\* C2 (amended): when no two edits with different headings resolve to the
\* same offset, the output of apply_edits is the same for every permutation
\* of the edit list.
C2_OrderInvariance ==
    (pc = "apply_returned" /\ TiesAgree) =>
        \A f \in Perms(Len(edits)) :
            ApplyEdits(text, Permuted(edits, f)) = modified_text

\* two edits resolved to different offsets, the later one given first
C2_Witness ==
    /\ pc = "apply_returned"
    /\ TiesAgree
    /\ Len(edits) >= 2
    /\ AnchorPos(1) > AnchorPos(2)
    /\ AnchorPos(2) # -1
    /\ modified_text # text

(***************************************************************************)
(* The grammar s/FIELD1/FIELD2/, stated on the raw text of a command.      *)
(***************************************************************************)
Body(cmd) == Slice(cmd, 2)

\* the number of consecutive backslashes that end at position j
RECURSIVE BackslashRun(_, _)
BackslashRun(body, j) ==
    IF j >= 1 /\ body[j] = BSL THEN 1 + BackslashRun(body, j - 1) ELSE 0

\* the character at j is preceded by an escaping backslash
EscapedAt(body, j) == BackslashRun(body, j - 1) % 2 = 1

\* the backslash at j escapes what follows it
EscapingAt(body, j) == body[j] = BSL /\ ~EscapedAt(body, j)

\* the positions of the delimiters that close a field
Delims(body) == {j \in 1..Len(body) : body[j] = "/" /\ ~EscapedAt(body, j)}

NthDelim(body, n) ==
    IF n = 0 THEN 0
    ELSE CHOOSE j \in Delims(body) : Cardinality({d \in Delims(body) : d <= j}) = n

\* the n-th field as written
RawField(body, n) == SubSeq(body, NthDelim(body, n - 1) + 1, NthDelim(body, n) - 1)

\* the characters of body[lo..hi] other than the escaping backslashes
RECURSIVE Kept(_, _, _)
Kept(body, lo, hi) ==
    IF lo > hi THEN <<>>
    ELSE (IF EscapingAt(body, lo) THEN <<>> ELSE <<body[lo]>>) \o Kept(body, lo + 1, hi)

\* the closed fields of a command with the escapes resolved
RefFields(cmd) ==
    [n \in 1..Cardinality(Delims(Body(cmd))) |->
        Kept(Body(cmd), NthDelim(Body(cmd), n - 1) + 1, NthDelim(Body(cmd), n) - 1)]

Parseable(cmd) == StartsWith(cmd, S) /\ Cardinality(Delims(Body(cmd))) >= 2

Malformed(cmd) == StartsWith(cmd, S) /\ Cardinality(Delims(Body(cmd))) < 2

Range(s) == {s[j] : j \in 1..Len(s)}

Remove(s, j) == SubSeq(s, 1, j - 1) \o SubSeq(s, j + 1, Len(s))

InSed == pc \in {"sed_loop", "sed_returned", "sed_raised"}

\* the command the last iteration of either parser has tokenized
HasLast ==
    \/ pc = "sed_raised"
    \/ /\ i > 1
       /\ StartsWith((IF InSed THEN edit_commands ELSE lines)[i - 1], S)

LastCmd ==
    IF pc = "sed_raised" THEN edit_commands[i]
    ELSE (IF InSed THEN edit_commands ELSE lines)[i - 1]

(***************************************************************************)
(* Mode A.                                                                 *)
(***************************************************************************)
\* the first occurrence of anchor replaced by tpl taken verbatim
ReplaceFirstLiteral(cur, anchor, tpl) ==
    IF Find(cur, anchor) = -1 THEN cur
    ELSE Prefix(cur, Find(cur, anchor)) \o tpl \o Slice(cur, Find(cur, anchor) + Len(anchor))

\* the fold of the first n commands, each a literal first-occurrence
\* replacement by its parsed template
RECURSIVE LiteralFold(_, _, _)
LiteralFold(t, cs, n) ==
    IF n = 0 THEN t
    ELSE LET cur == LiteralFold(t, cs, n - 1)
         IN IF Parseable(cs[n])
            THEN ReplaceFirstLiteral(cur, PatternOf(Tokenize(cs[n])),
                                     ReplacementOf(Tokenize(cs[n])))
            ELSE cur

CatDogSat == <<"c","a","t","d","o","g"," ","s","a","t">>

\* C3: apply_sed_edits returns the left-to-right fold of its commands, each
\* step replacing the first occurrence of the literal anchor in the current
\* text by the template taken verbatim (echo token replaced by the anchor);
\* "cat sat" with s/cat/$0dog/ gives "catdog sat".
C3_LiteralFold ==
    /\ pc \in {"sed_loop", "sed_returned"} =>
           result = LiteralFold(text, edit_commands, i - 1)
    /\ (pc = "sed_returned" /\ text = CatSat /\ edit_commands = <<CmdCatDog>>) =>
           result = CatDogSat

\* C4: no call raises: apply_sed_edits always gets to the end of its batch
\* and returns, and so does apply_edits.
C4_NeverRaises == pc # "sed_raised"

\* C5: a command whose field 2 contains backslash+n has a real newline in its
\* parsed template; s/x/y\n\nz/ has the template y, newline, newline, z.
C5_NewlineUnescape ==
    (InSed /\ HasLast /\ Parseable(LastCmd)) =>
        /\ Find(RawField(Body(LastCmd), 2), RawNL) # -1 => NL \in Range(replacement)
        /\ LastCmd = CmdNewlines => replacement = <<"y", NL, NL, "z">>

\* C6: for a line s/ANCHOR/HEADING\n\n$0/ the parsed heading is the part of
\* field 2 before the first backslash-n-backslash-n: exactly HEADING.
C6_HeadingOnly ==
    \A j \in 1..Len(edits) :
        LET f2 == RawField(Body(edits[j].raw_command), 2)
        IN (edits[j].raw_command # <<>> /\ Find(f2, RawNL \o RawNL) # -1) =>
               edits[j].heading = Prefix(f2, Find(f2, RawNL \o RawNL))

(***************************************************************************)
(* The tokenizer.                                                          *)
(***************************************************************************)
\* C7: the fields the scan closes are the texts between the unescaped
\* delimiters with every escaping backslash dropped and the character after
\* it kept: an escaped "/" closes no field and stands in the field as "/";
\* s/a\/b/c/ gives the anchor a/b and the template c.
C7_Tokenizer ==
    HasLast =>
        /\ parts = RefFields(LastCmd)
        /\ LastCmd = CmdASlashB =>
               /\ parts = <<ASlashB, <<"c">>>>
               /\ InSed => (pattern = ASlashB /\ replacement = <<"c">>)
               /\ ~InSed => edits[Len(edits)].section_start = ASlashB

\* s/a\/b/c/ was applied to the document a/b
C7_Witness ==
    /\ pc = "sed_returned"
    /\ text = ASlashB
    /\ HasLast
    /\ LastCmd = CmdASlashB
    /\ result = <<"c">>

\* C8: a command with fewer than two closed fields yields no edit: Mode A
\* leaves the text as it is and goes on to the next command, the heading
\* parser appends no record for it.
C8_DropMalformed ==
    [][ /\ (pc = "sed_loop" /\ i <= Len(edit_commands) /\ Malformed(edit_commands[i]))
            => (result' = result /\ i' = i + 1 /\ pc' = "sed_loop")
        /\ (pc = "gen_loop" /\ i <= Len(lines) /\ Malformed(lines[i]))
            => (edits' = edits /\ i' = i + 1 /\ pc' = "gen_loop") ]_vars

\* a malformed command was skipped and the command after it was applied
C8_Witness ==
    /\ pc = "sed_returned"
    /\ Len(edit_commands) = 2
    /\ Malformed(edit_commands[1])
    /\ result # text

(***************************************************************************)
(* Drop-on-miss and the non-empty anchor.                                  *)
(***************************************************************************)
\* the anchor of command j does not occur in the text command j works on
SedMiss(j) ==
    LET before == ApplySedEdits(text, SubSeq(edit_commands, 1, j - 1))
    IN /\ Parseable(edit_commands[j])
       /\ before.ok
       /\ Find(before.out, PatternOf(Tokenize(edit_commands[j]))) = -1

\* C9: an edit whose anchor does not occur at its resolution time changes
\* nothing: the outcome of the batch is that of the batch without it, and a
\* batch in which no anchor is found returns the document unchanged.
C9_DropOnMiss ==
    /\ pc \in {"sed_returned", "sed_raised"} =>
           \A j \in 1..Len(edit_commands) :
               SedMiss(j) =>
                   LET without == ApplySedEdits(text, Remove(edit_commands, j))
                   IN /\ without.ok = (pc = "sed_returned")
                      /\ without.ok => without.out = result
    /\ (pc = "sed_returned" /\ \A j \in 1..Len(edit_commands) : SedMiss(j)) =>
           result = text
    /\ pc = "apply_returned" =>
           /\ \A j \in 1..Len(edits) :
                  AnchorPos(j) = -1 => modified_text = ApplyEdits(text, Remove(edits, j))
           /\ (\A j \in 1..Len(edits) : AnchorPos(j) = -1) => modified_text = text

\* C10: an edit that is parsed has a non-empty anchor: Mode A applies no
\* command with an empty first field and the heading parser makes no record
\* of one.
C10_NonEmptyAnchor ==
    /\ (InSed /\ HasLast /\ Parseable(LastCmd)) => pattern # <<>>
    /\ \A j \in 1..Len(edits) :
           edits[j].raw_command # <<>> => edits[j].section_start # <<>>

(***************************************************************************)
(* The loops agree with the functions they compute.                        *)
(***************************************************************************)
LoopsAgree ==
    /\ pc = "sed_returned" => ApplySedEdits(text, edit_commands) = [ok |-> TRUE, out |-> result]
    /\ pc = "sed_raised" => ~ApplySedEdits(text, edit_commands).ok
    /\ pc = "apply_returned" => ApplyEdits(text, edits) = modified_text

(***************************************************************************)
(* Mode B: the offsets during the loop.                                    *)
(***************************************************************************)
\* the resolved edits the loop has not applied yet are sorted_edits[1..k]
PendingPrefixesKept ==
    \A j \in 1..k :
        Prefix(modified_text, sorted_edits[j].position)
            = Prefix(text, sorted_edits[j].position)

\* the buffer at the offset of the edit applied next begins with its anchor
NextAnchorInPlace ==
    OccursAt(modified_text, sorted_edits[k].edit.section_start,
             sorted_edits[k].position)

OffsetsDistinct ==
    \A a, b \in 1..Len(sorted_edits) :
        a # b => sorted_edits[a].position # sorted_edits[b].position

\* the first occurrences of the resolved anchors start at different offsets
\* and share no character
ResolvedNonOverlapping ==
    \A a, b \in 1..Len(sorted_edits) :
        a # b =>
            /\ sorted_edits[a].position # sorted_edits[b].position
            /\ sorted_edits[a].position < sorted_edits[b].position =>
                   sorted_edits[a].position + Len(sorted_edits[a].edit.section_start)
                       <= sorted_edits[b].position

\* C11 as claimed: at every step of the loop the buffer agrees with the
\* original text up to the offset of every edit not yet applied, and when
\* all resolved offsets are distinct the buffer at the offset of the edit
\* about to be applied begins with that edit's anchor.
C11_Original ==
    pc = "apply_loop" =>
        /\ PendingPrefixesKept
        /\ (OffsetsDistinct /\ k >= 1) => NextAnchorInPlace

\* C11 (amended): at every step of the loop the buffer agrees with the
\* original text up to the offset of every edit not yet applied, and when
\* the first occurrences of the resolved anchors are pairwise non-overlapping
\* the buffer at the offset of the edit about to be applied begins with that
\* edit's anchor.
C11_OffsetValidity ==
    pc = "apply_loop" =>
        /\ PendingPrefixesKept
        /\ (ResolvedNonOverlapping /\ k >= 1) => NextAnchorInPlace

\* one of two resolved edits has been spliced in, the other is about to be
C11_Witness ==
    /\ pc = "apply_loop"
    /\ Len(sorted_edits) = 2
    /\ k = 1
    /\ ResolvedNonOverlapping
    /\ modified_text # text
    /\ Prefix(modified_text, sorted_edits[2].position)
           = Prefix(text, sorted_edits[2].position)

(***************************************************************************)
(* Mode B: edits that resolve to the same offset.                          *)
(***************************************************************************)
\* heading + "\n\n" of the edits n, n+1, .. that resolve to offset p, in the
\* order of the input list
RECURSIVE BlockFrom(_, _)
BlockFrom(p, n) ==
    IF n > Len(edits) THEN <<>>
    ELSE (IF AnchorPos(n) = p THEN edits[n].heading \o <<NL, NL>> ELSE <<>>)
             \o BlockFrom(p, n + 1)

Block(p) == BlockFrom(p, 1)

\* the number of characters inserted at the offsets below p
RECURSIVE BlockLenBelow(_)
BlockLenBelow(p) ==
    IF p <= 0 THEN 0 ELSE Len(Block(p - 1)) + BlockLenBelow(p - 1)

\* the lowest resolved offset above p, or the end of the text
NextOffset(p) ==
    LET above == {AnchorPos(n) : n \in 1..Len(edits)} \cap ((p + 1)..Len(text))
    IN IF above = {} THEN Len(text)
       ELSE CHOOSE q \in above : \A r \in above : q <= r

Tied(p) == {n \in 1..Len(edits) : AnchorPos(n) = p}

\* C12: when two or more edits resolve to the same offset p, apply_edits
\* returns, every one of their headings (each followed by "\n\n") stands in
\* one contiguous block, in the order of the input list, immediately before
\* the original text at p, where their anchors begin; nothing else is added.
C12_TieBreak ==
    pc = "apply_returned" =>
        /\ Len(modified_text) = Len(text) + BlockLenBelow(Len(text) + 1)
        /\ \A p \in 0..Len(text) :
               Cardinality(Tied(p)) >= 2 =>
                   OccursAt(modified_text,
                            Block(p) \o SubSeq(text, p + 1, NextOffset(p)),
                            p + BlockLenBelow(p))

\* two edits with different headings were applied at one offset behind the
\* start of the document
C12_Witness ==
    /\ pc = "apply_returned"
    /\ Len(edits) = 2
    /\ AnchorPos(1) = AnchorPos(2)
    /\ AnchorPos(1) > 0
    /\ edits[1].heading # edits[2].heading
    /\ OccursAt(modified_text,
                edits[1].heading \o <<NL, NL>> \o edits[2].heading \o <<NL, NL>>
                    \o edits[1].section_start,
                AnchorPos(1))

(***************************************************************************)
(* The two appliers on the saved commands of one reply.                    *)
(***************************************************************************)
EndsWith(s, t) == Len(s) >= Len(t) /\ SubSeq(s, Len(s) - Len(t) + 1, Len(s)) = t

\* a line of the form s/ANCHOR/HEADING\n\n$0/
IsPrompted(line) ==
    /\ StartsWith(line, S)
    /\ Cardinality(Delims(Body(line))) = 2
    /\ NthDelim(Body(line), 2) = Len(Body(line))
    /\ EndsWith(RawField(Body(line), 2), RawNL \o RawNL \o ECHO)

\* HEADING as written in a prompted line
WrittenHeading(line) ==
    LET f2 == RawField(Body(line), 2)
    IN Prefix(f2, Find(f2, RawNL \o RawNL))

\* the edits are the records of the saved commands, all of the prompted form
EditsOfPrompted ==
    /\ Len(edits) = Len(raw_commands)
    /\ \A j \in 1..Len(edits) :
           /\ edits[j].raw_command = raw_commands[j]
           /\ IsPrompted(raw_commands[j])

\* no anchor occurs inside a heading, as written or as parsed
AnchorsOutsideHeadings ==
    \A m, n \in 1..Len(edits) :
        /\ Find(WrittenHeading(raw_commands[n]), edits[m].section_start) = -1
        /\ Find(edits[n].heading, edits[m].section_start) = -1

\* C13: for saved commands of the prompted form whose anchors are distinct,
\* non-overlapping, present in the document and outside every heading,
\* apply_sed_edits on the raw commands returns the document that apply_edits
\* returns on the records the parser of generate_edits made of them.
C13_AppliersAgree ==
    (pc = "apply_returned" /\ EditsOfPrompted /\ C1_Pre /\ AnchorsOutsideHeadings) =>
        ApplySedEdits(text, raw_commands) = [ok |-> TRUE, out |-> modified_text]

====
